---- MODULE Spec2Model ----
(***************************************************************************)
(* Model of the data acquisition and reconciliation engine of the GitHub   *)
(* activity dashboard: AllUserCommit (all_user_commit) and the             *)
(* GitHubDataEngine of developer_insights.mjs.                             *)
(*                                                                         *)
(* Conventions                                                             *)
(*  - a commit is the record [sha, type, pullRequest]; pullRequest = 0 is  *)
(*    the source's null.  The other fields of a commit (message, date,     *)
(*    repository, author, url, parents, stats, files, userId) are carried  *)
(*    through every operation unchanged and are left out.                  *)
(*  - a date "YYYY-MM-DD" is its day number: the source parses it as UTC   *)
(*    midnight and formats it back with toISOString(); the day arithmetic  *)
(*    (setDate) is modelled for a process time zone without DST shifts.    *)
(*  - a search hit is the record [id, number, repository_url]; the remote  *)
(*    gives one id to each (repository_url, number) pair.                  *)
(***************************************************************************)
EXTENDS Integers, Sequences, FiniteSets, TLC

(* ---- bounds of the model ---- *)
MaxSha == 3
MaxDirectLen == 2
MaxPrLen == 2
MaxPrNumber == 2
MaxDay == 17
MaxResultLen == 2
MaxBudget == 3
MaxNowSeconds == 1
MaxRemaining == 1
MaxUsers == 2
MaxRepos == 2
PerPage == 2
MaxPrCommits == 3
MaxRepoCommits == 2
RunEndDay == 9
SearchCeiling == 2

VARIABLES
  rcDirect,   \* directCommits as returned by the repository walk
  rcPr,       \* prCommits (allPrCommits)
  rcOut,      \* directCommits after the two reconciliation loops
  rcAgain,    \* the reconciliation applied to rcOut and an empty prCommits
  rcPc,       \* "input" | "done" | "again"
  dpStart,    \* startDate
  dpEnd,      \* endDate
  dpParts,    \* createDatePartitions(startDate, endDate)
  dpRanges,   \* generateTimeRanges(startDate, endDate, "weekly")
  dpPc,       \* "input" | "done"
  dpOutcome,  \* how the two partitioners ended: "none" | "returned" | "thrown"
  mgAuthor,   \* authorResults
  mgUser,     \* userResults
  mgTotalRecords,  \* config.totalRecords
  mgTotalFetched,  \* this.totalFetched
  mgUnique,   \* uniquePRs returned by searchPullRequestsWithPartitioning
  mgById,     \* uniquePRs of GitHubDataEngine.fetchPullRequests
  mgPc,       \* "input" | "done"
  mgKept,     \* which objects of the concatenated results each merge keeps
  variant,    \* the tool that runs: "all_user_commit" | "developer_insights"
  config,     \* this.config: totalRecords, ignoreDateRange, includeDetails, start, end
  remote,     \* what the remote service holds: repos, commits, author and user hits
  pc,         \* position of run()
  cancelled,  \* this.cancelled
  sigPc,      \* position of the SIGINT handler: "idle" | "mkdir" | "exit" | "done"
  sigintPc,   \* position of run() when SIGINT arrived, "none" before
  exitCode,   \* "none" while the process lives, then its exit code
  totalFetched,   \* this.totalFetched / this.totalRecordsFetched
  repos,      \* repos of getUserRepositories
  page,       \* page of the running pagination loop
  repoIdx,    \* index of the for-loop over filteredRepos
  repoCommits,    \* commits of getRepositoryCommits
  formatted,  \* the page whose detail requests are awaited
  directCommits,  \* allCommits / directCommits
  tasks,      \* the two searchPullRequestsForUser calls awaited by Promise.all
  pullRequests,   \* pullRequests (uniquePRs)
  prIdx,      \* index of the for-loop over pullRequests
  allPrCommits,   \* allPrCommits
  queryIdx,   \* index of the for-loop over searchQueries (fetchPullRequests)
  commits,    \* this.commits
  reports,    \* the report files written, in order
  inflight,   \* the requests issued and not yet answered
  loopHead,   \* the loop whose head was evaluated last and the fields it read
  runError,   \* the error that reached the catch of run(), "none" before
  errors,     \* this.errors: the operations that recorded an error
  listingFailed,  \* how the commit listing of the current repository failed: "none" | "skipped" | "recorded"
  userValidated,  \* whether GET /users/{username} has succeeded in this run
  returned,   \* the number of records the listing and search requests have returned so far
  qtTool,     \* the tool whose limiter asks for the quota status
  qtResource, \* "core" | "search"
  qtReachable,\* whether GET /rate_limit answers
  qtNowMs,    \* Date.now() when the status is asked for
  qtServer,   \* data.resources of the answer of GET /rate_limit
  qtStatus,   \* what getRateLimitStatus hands to the limiter
  qtPc,       \* "input" | "done"
  usRemote,   \* github_user_status: what the service answers for each username, and for GET /rate_limit
  usTotalRecords, \* github_user_status: config.totalRecords
  usPc,       \* github_user_status: position in run()
  usIdx,      \* github_user_status: index of the username processUsers is at
  usResults,  \* github_user_status: results of processUsers
  usCalls     \* github_user_status: the remote calls issued, each with the limiter it went through

rcVars == <<rcDirect, rcPr, rcOut, rcAgain, rcPc>>
dpVars == <<dpStart, dpEnd, dpParts, dpRanges, dpPc, dpOutcome>>
mgVars == <<mgAuthor, mgUser, mgTotalRecords, mgTotalFetched, mgUnique, mgById, mgPc,
           mgKept>>
qtVars == <<qtTool, qtResource, qtReachable, qtNowMs, qtServer, qtStatus, qtPc>>
usVars == <<usRemote, usTotalRecords, usPc, usIdx, usResults, usCalls>>
pureVars == <<rcVars, dpVars, mgVars, qtVars, usVars>>
worldVars == <<variant, config, remote>>
runVars == <<pc, cancelled, sigPc, sigintPc, exitCode, totalFetched, repos, page, repoIdx,
             repoCommits, formatted, directCommits, tasks, pullRequests, prIdx,
             allPrCommits, queryIdx, commits, reports, inflight, loopHead, runError,
             errors, listingFailed, userValidated, returned>>
vars == <<pureVars, worldVars, runVars>>

(* ---- helpers ---- *)
SeqsUpTo(S, n) == UNION {[1..k -> S] : k \in 0..n}

Min(a, b) == IF a < b THEN a ELSE b

Max(a, b) == IF a > b THEN a ELSE b

(* Array.prototype.splice(k) on a list: keeps the first k entries *)
Take(s, k) == SubSeq(s, 1, Min(Len(s), k))

(***************************************************************************)
(* Reconciliation of direct commits with pull-request commits              *)
(***************************************************************************)
Sha == 1..MaxSha

DirectCommit == [sha : Sha, type : {"direct"}, pullRequest : {0}]

PrCommit == [sha : Sha, type : {"pull_request"}, pullRequest : 1..MaxPrNumber]

Shas(list) == {list[i].sha : i \in 1..Len(list)}

(* Array.prototype.find((c) => c.sha === sha): index of the first match, 0 if none *)
FindBySha(list, sha) ==
  IF \E i \in 1..Len(list) : list[i].sha = sha
  THEN CHOOSE i \in 1..Len(list) :
         /\ list[i].sha = sha
         /\ \A j \in 1..(i - 1) : list[j].sha # sha
  ELSE 0

(* body of the first loop: the direct commit found for prCommit is retyped *)
ReclassifyOne(direct, prCommit) ==
  LET i == FindBySha(direct, prCommit.sha) IN
  IF i = 0 THEN direct
  ELSE [direct EXCEPT ![i] = [@ EXCEPT !.type = "pull_request",
                                       !.pullRequest = prCommit.pullRequest]]

(* the first loop written over the direct commits: a commit whose sha is not *)
(* in the PR list is reset to a direct commit                               *)
ReclassifyByMembership(direct, pr, k) ==
  [i \in 1..Len(direct) |->
     IF \E j \in 1..Len(pr) : pr[j].sha = direct[i].sha
     THEN LET first == CHOOSE j \in 1..Len(pr) :
                         /\ pr[j].sha = direct[i].sha
                         /\ \A h \in 1..(j - 1) : pr[h].sha # direct[i].sha
          IN [direct[i] EXCEPT !.type = "pull_request", !.pullRequest = pr[first].pullRequest]
     ELSE [direct[i] EXCEPT !.type = "direct", !.pullRequest = 0]]

RECURSIVE ReclassifyFrom(_, _, _)
ReclassifyFrom(direct, pr, k) ==
  IF k > Len(pr) THEN direct
  ELSE ReclassifyFrom(ReclassifyOne(direct, pr[k]), pr, k + 1)

AppendOneUnchecked(direct, prCommit) == Append(direct, prCommit)

(* body of the second loop: a prCommit whose sha is not in the list is pushed *)
AppendOne(direct, prCommit) ==
  IF FindBySha(direct, prCommit.sha) = 0 THEN Append(direct, prCommit) ELSE direct

RECURSIVE AppendFrom(_, _, _)
AppendFrom(direct, pr, k) ==
  IF k > Len(pr) THEN direct
  ELSE AppendFrom(AppendOne(direct, pr[k]), pr, k + 1)

Reconcile(direct, pr) == AppendFrom(ReclassifyFrom(direct, pr, 1), pr, 1)

ReconcileIdle ==
  /\ rcDirect = <<>>
  /\ rcPr = <<>>
  /\ rcOut = <<>>
  /\ rcAgain = <<>>
  /\ rcPc = "idle"

ReconcileInit ==
  /\ rcDirect \in SeqsUpTo(DirectCommit, MaxDirectLen)
  /\ rcPr \in SeqsUpTo(PrCommit, MaxPrLen)
  /\ rcOut = <<>>
  /\ rcAgain = <<>>
  /\ rcPc = "input"

DoReconcile ==
  /\ rcPc = "input"
  /\ rcOut' = Reconcile(rcDirect, rcPr)
  /\ rcPc' = "done"
  /\ UNCHANGED <<rcDirect, rcPr, rcAgain>>

(* the two loops run once more, on their own output and an empty prCommits *)
DoReconcileAgain ==
  /\ rcPc = "done"
  /\ rcAgain' = Reconcile(rcOut, <<>>)
  /\ rcPc' = "again"
  /\ UNCHANGED <<rcDirect, rcPr, rcOut>>

(***************************************************************************)
(* Date partitioning                                                       *)
(***************************************************************************)
Day == 0..MaxDay

WeekSpan == 7

NextWeekStep == 8

OneDay == 1

(* while (current < end) { push {current, min(current+7, end)}; current += 8 } *)
RECURSIVE DatePartitionsFrom(_, _, _)
DatePartitionsFrom(current, end, partitions) ==
  IF current < end
  THEN LET partitionEnd == IF current + WeekSpan > end THEN end ELSE current + WeekSpan
       IN DatePartitionsFrom(current + NextWeekStep, end,
                             Append(partitions, [start |-> current, end |-> partitionEnd]))
  ELSE partitions

createDatePartitions(startDate, endDate) == DatePartitionsFrom(startDate, endDate, <<>>)

(* while (current < end) { push {current, min(current+7, end)}; current = rangeEnd + 1 } *)
RECURSIVE TimeRangesFrom(_, _, _)
TimeRangesFrom(current, end, ranges) ==
  IF current < end
  THEN LET rangeEnd == IF current + WeekSpan > end THEN end ELSE current + WeekSpan
       IN TimeRangesFrom(rangeEnd + OneDay, end,
                         Append(ranges, [start |-> current, end |-> rangeEnd]))
  ELSE ranges

generateTimeRanges(startDate, endDate) == TimeRangesFrom(startDate, endDate, <<>>)

PartitionIdle ==
  /\ dpStart = 0
  /\ dpEnd = 0
  /\ dpParts = <<>>
  /\ dpRanges = <<>>
  /\ dpPc = "idle"
  /\ dpOutcome = "none"

PartitionInit ==
  /\ dpStart \in Day
  /\ dpEnd \in Day
  /\ dpParts = <<>>
  /\ dpRanges = <<>>
  /\ dpPc = "input"
  /\ dpOutcome = "none"

(* both functions hold no throw statement and no call that throws on a valid *)
(* date: whatever the range, they return the list built by the loop          *)
DoPartition ==
  /\ dpPc = "input"
  /\ dpOutcome' = "returned"
  /\ dpParts' = createDatePartitions(dpStart, dpEnd)
  /\ dpRanges' = generateTimeRanges(dpStart, dpEnd)
  /\ dpPc' = "done"
  /\ UNCHANGED <<dpStart, dpEnd>>

(***************************************************************************)
(* Dual-query merge of pull-request search results                         *)
(***************************************************************************)
RepoUrls == {"r1", "r2"}

(* the remote's id of the pull request `number` of repository `url` *)
PrIdOf(url, number) == IF url = "r1" THEN number ELSE MaxPrNumber + number

PrItems ==
  {[id |-> PrIdOf(u, n), number |-> n, repository_url |-> u] :
     u \in RepoUrls, n \in 1..MaxPrNumber}

Ids(list) == {list[i].id : i \in 1..Len(list)}

(* Number.MAX_SAFE_INTEGER (2^53 - 1), held to 32 bits: it only has to exceed  *)
(* every list length and every per_page                                     *)
MaxSafeInteger == 2147483647

checkTotalRecordsLimit(totalRecords, fetched) ==
  totalRecords > 0 /\ fetched >= totalRecords

getRemainingRecords(totalRecords, fetched) ==
  IF totalRecords = 0 THEN MaxSafeInteger ELSE Max(0, totalRecords - fetched)

SamePrByNumber(p, q) == p.number = q.number

(* the predicate of self.findIndex in searchPullRequestsWithPartitioning *)
SamePr(p, q) == p.number = q.number /\ p.repository_url = q.repository_url

(* self.findIndex(...): the first index whose entry matches pr *)
FindIndexOfPr(list, pr) ==
  CHOOSE i \in 1..Len(list) :
    /\ SamePr(list[i], pr)
    /\ \A j \in 1..(i - 1) : ~SamePr(list[j], pr)

(* allPullRequests.filter((pr, index, self) => index === self.findIndex(...)) *)
RECURSIVE FilterFirstFrom(_, _, _)
FilterFirstFrom(list, k, acc) ==
  IF k > Len(list) THEN acc
  ELSE FilterFirstFrom(list, k + 1,
         IF FindIndexOfPr(list, list[k]) = k THEN Append(acc, list[k]) ELSE acc)

UniquePRs(list) == FilterFirstFrom(list, 1, <<>>)

(* lines 611-618: the budget is applied to the deduplicated list *)
ApplyRecordLimit(uniquePRs, totalRecords, fetched) ==
  IF totalRecords > 0
  THEN LET remainingRecords == getRemainingRecords(totalRecords, fetched) IN
       IF Len(uniquePRs) > remainingRecords THEN Take(uniquePRs, remainingRecords)
       ELSE uniquePRs
  ELSE uniquePRs

(* Array.from(new Map(list.map((pr) => [pr.id, pr])).values()): one entry per  *)
(* key, at the position of the key's first insertion, holding its last value  *)
RECURSIVE MapValuesFrom(_, _, _)
MapValuesFrom(list, k, acc) ==
  IF k > Len(list) THEN acc
  ELSE LET pr == list[k] IN
       MapValuesFrom(list, k + 1,
         IF \E i \in 1..Len(acc) : acc[i].id = pr.id
         THEN [i \in 1..Len(acc) |-> IF acc[i].id = pr.id THEN pr ELSE acc[i]]
         ELSE Append(acc, pr))

UniqueById(list) == MapValuesFrom(list, 1, <<>>)

(* the entries of a result list are objects: each carries its position in the *)
(* list as its identity                                                       *)
Occurrences(list) ==
  [i \in 1..Len(list) |->
     [id |-> list[i].id, number |-> list[i].number,
      repository_url |-> list[i].repository_url, occurrence |-> i]]

MergeIdle ==
  /\ mgAuthor = <<>>
  /\ mgUser = <<>>
  /\ mgTotalRecords = 0
  /\ mgTotalFetched = 0
  /\ mgUnique = <<>>
  /\ mgById = <<>>
  /\ mgPc = "idle"
  /\ mgKept = [unique |-> <<>>, byId |-> <<>>]

(* the pull-request search starts only while the limit is not reached (line 903) *)
MergeInit ==
  /\ mgAuthor \in SeqsUpTo(PrItems, MaxResultLen)
  /\ mgUser \in SeqsUpTo(PrItems, MaxResultLen)
  /\ mgTotalRecords \in 0..MaxBudget
  /\ mgTotalFetched \in 0..MaxBudget
  /\ ~checkTotalRecordsLimit(mgTotalRecords, mgTotalFetched)
  /\ mgUnique = <<>>
  /\ mgById = <<>>
  /\ mgPc = "input"
  /\ mgKept = [unique |-> <<>>, byId |-> <<>>]

DoMerge ==
  /\ mgPc = "input"
  /\ LET uniquePRs == ApplyRecordLimit(UniquePRs(mgAuthor \o mgUser),
                                       mgTotalRecords, mgTotalFetched)
     IN /\ mgUnique' = uniquePRs
        /\ mgTotalFetched' = IF mgTotalRecords > 0
                             THEN mgTotalFetched + Len(uniquePRs)
                             ELSE mgTotalFetched
  /\ mgById' = UniqueById(mgAuthor \o mgUser)
  /\ mgKept' = [unique |-> UniquePRs(Occurrences(mgAuthor \o mgUser)),
                byId |-> UniqueById(Occurrences(mgAuthor \o mgUser))]
  /\ mgPc' = "done"
  /\ UNCHANGED <<mgAuthor, mgUser, mgTotalRecords>>

(***************************************************************************)
(* The quota status handed to API_Rate_Limiter (getRateLimitStatus)        *)
(***************************************************************************)
Tools == {"all_user_commit", "developer_insights", "github_user_status"}

Resources == {"core", "search"}

MsPerSecond == 1000

FallbackRemaining == 1

FallbackResetSeconds == 60

QuotaOf(remaining, reset) == [outcome |-> "status", remaining |-> remaining, reset |-> reset]

QuotaThrown == [outcome |-> "thrown", remaining |-> 0, reset |-> 0]

QuotaNone == [outcome |-> "none", remaining |-> 0, reset |-> 0]

(* { remaining: 1, reset: Math.floor(Date.now() / 1000) + 60 } *)
SafeDefaults(nowMs) == QuotaOf(FallbackRemaining, (nowMs \div MsPerSecond) + FallbackResetSeconds)

(* getGitHubRateLimit of AllUserCommit.initializeRateLimiters and of        *)
(* GitHubDataEngine: try { request("GET /rate_limit") } catch { defaults }  *)
getGitHubRateLimit(resource, reachable, server, nowMs) ==
  IF reachable THEN QuotaOf(server[resource].remaining, server[resource].reset)
  ELSE SafeDefaults(nowMs)

(* getRateLimitStatus of GitHubUserStatus.initializeRateLimiters: the       *)
(* rejection of octokit.rest.rateLimit.get() is not caught                  *)
getRateLimitStatus(resource, reachable, server) ==
  IF reachable THEN QuotaOf(server[resource].remaining, server[resource].reset)
  ELSE QuotaThrown

QuotaIdle ==
  /\ qtTool = "none"
  /\ qtResource = "core"
  /\ qtReachable = TRUE
  /\ qtNowMs = 0
  /\ qtServer = [r \in Resources |-> [remaining |-> 0, reset |-> 0]]
  /\ qtStatus = QuotaNone
  /\ qtPc = "idle"

QuotaInit ==
  /\ qtTool \in Tools
  /\ qtResource \in Resources
  /\ qtReachable \in BOOLEAN
  /\ qtNowMs \in {sec * MsPerSecond + ms : sec \in 0..MaxNowSeconds, ms \in {0, MsPerSecond - 1}}
  /\ qtServer \in [Resources -> [remaining : 0..MaxRemaining, reset : {MaxNowSeconds}]]
  /\ qtStatus = QuotaNone
  /\ qtPc = "input"

(* the limiter of all_user_commit asks for the status of its resource *)
AucQuotaStatus ==
  /\ qtPc = "input" /\ qtTool = "all_user_commit"
  /\ qtStatus' = getGitHubRateLimit(qtResource, qtReachable, qtServer, qtNowMs)
  /\ qtPc' = "done"
  /\ UNCHANGED <<qtTool, qtResource, qtReachable, qtNowMs, qtServer>>

(* the limiter of developer_insights asks for the status of its resource *)
DeQuotaStatus ==
  /\ qtPc = "input" /\ qtTool = "developer_insights"
  /\ qtStatus' = getGitHubRateLimit(qtResource, qtReachable, qtServer, qtNowMs)
  /\ qtPc' = "done"
  /\ UNCHANGED <<qtTool, qtResource, qtReachable, qtNowMs, qtServer>>

(* the limiter of github_user_status asks for the status of its resource *)
GusQuotaStatus ==
  /\ qtPc = "input" /\ qtTool = "github_user_status"
  /\ qtStatus' = getRateLimitStatus(qtResource, qtReachable, qtServer)
  /\ qtPc' = "done"
  /\ UNCHANGED <<qtTool, qtResource, qtReachable, qtNowMs, qtServer>>

(***************************************************************************)
(* A run of github_user_status (GitHubUserStatus.run)                      *)
(***************************************************************************)
(* what the service answers for a username: GET /users/{username} answers   *)
(* 200 ("active"), 500 ("error") or 404; after a 404, GET /search/users     *)
(* finds the user ("suspended"), finds nothing ("missing") or fails         *)
(* ("searchFails")                                                          *)
UserStates == {"active", "error", "suspended", "missing", "searchFails"}

RateLimitEndpoint == <<"rate_limit">>

UsersEndpoint == <<"users", "{username}">>

SearchUsersEndpoint == <<"search", "users">>

(* the resource class of an endpoint: /search/* is "search", the rest "core" *)
ResourceClass(endpoint) == IF endpoint[1] = "search" THEN "search" ELSE "core"

(* a call issued inside limiter.schedule (makeRequest) *)
Scheduled(endpoint, limiter) == [endpoint |-> endpoint, via |-> limiter]

(* a call issued on this.octokit directly *)
Direct(endpoint) == [endpoint |-> endpoint, via |-> "none"]

(* usersToProcess of processUsers *)
UsersToProcess ==
  IF usTotalRecords > 0 THEN Take(usRemote.users, usTotalRecords) ELSE usRemote.users

StatusIdle ==
  /\ usRemote = [users |-> <<>>, rateLimit |-> TRUE]
  /\ usTotalRecords = 0
  /\ usPc = "idle"
  /\ usIdx = 1
  /\ usResults = <<>>
  /\ usCalls = <<>>

StatusInit ==
  /\ usRemote \in [users : UNION {[1..n -> UserStates] : n \in 1..MaxUsers}, rateLimit : BOOLEAN]
  /\ usTotalRecords \in 0..MaxUsers
  /\ usPc = "checkRateLimit"
  /\ usIdx = 1
  /\ usResults = <<>>
  /\ usCalls = <<>>

(* checkRateLimit: octokit.rest.rateLimit.get() on the client itself; a     *)
(* failure is logged and null returned                                      *)
checkRateLimit ==
  /\ usPc = "checkRateLimit"
  /\ usCalls' = Append(usCalls, Direct(RateLimitEndpoint))
  /\ usPc' = "processUsers"
  /\ UNCHANGED <<usRemote, usTotalRecords, usIdx, usResults>>

(* validateUser: GET /users/{username} through makeRequest and its default  *)
(* limiter; 200 is "Active", 404 goes on to searchForUser, any other        *)
(* failure is rethrown and recorded by processUsers as "Error"              *)
validateUser ==
  /\ usPc = "processUsers"
  /\ usIdx <= Len(UsersToProcess)
  /\ usCalls' = Append(usCalls, Scheduled(UsersEndpoint, "core"))
  /\ LET answer == UsersToProcess[usIdx]
     IN IF answer = "active"
        THEN /\ usResults' = Append(usResults, "Active")
             /\ usIdx' = usIdx + 1
             /\ UNCHANGED usPc
        ELSE IF answer = "error"
        THEN /\ usResults' = Append(usResults, "Error")
             /\ usIdx' = usIdx + 1
             /\ UNCHANGED usPc
        ELSE /\ usPc' = "searchForUser"
             /\ UNCHANGED <<usResults, usIdx>>
  /\ UNCHANGED <<usRemote, usTotalRecords>>

(* searchForUser: GET /search/users through makeRequest on the search       *)
(* limiter; a failure of the search counts as not found                     *)
searchForUser ==
  /\ usPc = "searchForUser"
  /\ usCalls' = Append(usCalls, Scheduled(SearchUsersEndpoint, "search"))
  /\ usResults' = Append(usResults, IF UsersToProcess[usIdx] = "suspended"
                                    THEN "Suspended" ELSE "Not Found / Suspended")
  /\ usIdx' = usIdx + 1
  /\ usPc' = "processUsers"
  /\ UNCHANGED <<usRemote, usTotalRecords>>

(* run: generateReport and saveReport after the last username *)
saveReport ==
  /\ usPc = "processUsers"
  /\ usIdx > Len(UsersToProcess)
  /\ usPc' = "showRateLimit"
  /\ UNCHANGED <<usRemote, usTotalRecords, usIdx, usResults, usCalls>>

(* showRateLimit: octokit.rest.rateLimit.get() on the client itself *)
showRateLimit ==
  /\ usPc = "showRateLimit"
  /\ usCalls' = Append(usCalls, Direct(RateLimitEndpoint))
  /\ usPc' = "done"
  /\ UNCHANGED <<usRemote, usTotalRecords, usIdx, usResults>>

(***************************************************************************)
(* A run of all_user_commit (AllUserCommit.run) or of the pull-request     *)
(* fetch of developer_insights (GitHubDataEngine.fetchPullRequests).       *)
(* The remote service answers every request; page `page` of a listing      *)
(* requested with `per_page` holds the entries (page-1)*per_page + 1 to    *)
(* page*per_page of what the remote holds.  A step of the model ends where *)
(* the source awaits or where a loop evaluates its head.                   *)
(***************************************************************************)
Queries == {"author", "user"}

SortedSeqOf(T) ==
  CHOOSE s \in [1..Cardinality(T) -> T] :
    \A i, j \in 1..Cardinality(T) : i < j => s[i] < s[j]

AscSeqs(S) == {SortedSeqOf(T) : T \in SUBSET S}

(* the pull requests the searches of a run can return: number 1 of two repositories *)
RunPrIds == {PrIdOf("r1", 1), PrIdOf("r2", 1)}

PrItemOf(id) == CHOOSE p \in PrItems : p.id = id

(* the day a pull request was created: the first and the last day of the range *)
PrDay(id) == IF id = PrIdOf("r1", 1) THEN 0 ELSE RunEndDay

(* the commits a repository can hold: the shas 1..k, so that two repositories *)
(* (a fork and its upstream) can hold the same commit                        *)
RepoShaLists == {[j \in 1..k |-> j] : k \in 0..MaxRepoCommits}

(* the commits a pull request can hold: the shas k..MaxSha, so that a pull   *)
(* request can hold commits of the repositories and commits of its own      *)
PrShaLists ==
  {[j \in 1..(MaxSha - k) |-> k + j] : k \in (MaxSha - Min(MaxSha, MaxPrCommits))..MaxSha}

Configs ==
  [totalRecords : 0..MaxBudget, ignoreDateRange : BOOLEAN, includeDetails : {TRUE},
   start : {0}, end : {RunEndDay}, valid : BOOLEAN]

(* what GET /users/{username} answers: 200, 404 or another failure *)
AccountStates == {"found", "missing", "failing"}

Remotes ==
  {r \in [repos : 0..MaxRepos, commits : [1..MaxRepos -> RepoShaLists],
          author : AscSeqs(RunPrIds), user : AscSeqs(RunPrIds), account : AccountStates] :
     \A i \in 1..MaxRepos : i > r.repos => r.commits[i] = <<>>}

(* dateRange of analyzeUserCommits is null when the date range is ignored *)
HasDateRange == ~config.ignoreDateRange

Page(list, pageNo, perPage) ==
  LET lo == (pageNo - 1) * perPage + 1
      hi == Min(Len(list), pageNo * perPage)
  IN IF lo > hi THEN <<>> ELSE SubSeq(list, lo, hi)

(* Array.prototype.splice(-excess): drops the last `excess` entries *)
DropLast(list, excess) ==
  IF excess >= Len(list) THEN <<>> ELSE SubSeq(list, 1, Len(list) - excess)

Req(kind, i) == <<kind, i>>

(* the statuses a failing commit listing is answered with: empty repository, *)
(* not found, server error                                                  *)
FailureStatuses == {409, 404, 500}

(* error.status === 409 || error.status === 404 *)
SkippedStatuses == {409, 404}

(* GET /search/issues answers 422 "Only the first 1000 search results are   *)
(* available" to a page that reaches beyond the ceiling                     *)
BeyondCeiling(pageNo, perPage) == pageNo * perPage > SearchCeiling

DetailReqs(n) == {Req("detail", i) : i \in 1..n}

NoLoop == [loop |-> "none", tests |-> {}]

LimitReached == checkTotalRecordsLimit(config.totalRecords, totalFetched)

Remaining == getRemainingRecords(config.totalRecords, totalFetched)

(* while (!this.cancelled && !this.checkTotalRecordsLimit()) *)
LoopContinues(flag, totalRecords, fetched) ==
  ~flag /\ ~checkTotalRecordsLimit(totalRecords, fetched)

(* if (this.cancelled || this.checkTotalRecordsLimit()) break; *)
LoopBreaks(flag, totalRecords, fetched) ==
  flag \/ checkTotalRecordsLimit(totalRecords, fetched)

RemoteRepoList == [i \in 1..remote.repos |-> i]

DirectCommitOf(sha) == [sha |-> sha, type |-> "direct", pullRequest |-> 0]

PrCommitOf(sha, pullNumber) == [sha |-> sha, type |-> "pull_request", pullRequest |-> pullNumber]

RemoteCommitList(repo) == [i \in 1..Len(remote.commits[repo]) |-> DirectCommitOf(remote.commits[repo][i])]

RunPartitions == createDatePartitions(config.start, config.end)

RunTimeRanges == generateTimeRanges(config.start, config.end)

HitIds(q) == IF q = "author" THEN remote.author ELSE remote.user

InRange(id, range) == range.start <= PrDay(id) /\ PrDay(id) <= range.end

SelectIn(ids, range) == SelectSeq(ids, LAMBDA id : InRange(id, range))

ItemsOf(ids) == [i \in 1..Len(ids) |-> PrItemOf(ids[i])]

(* the hits of `${query} created:${partition.start}..${partition.end}` *)
PartitionHits(q, part) == ItemsOf(SelectIn(HitIds(q), RunPartitions[part]))

AllHits(q) == ItemsOf(HitIds(q))

IdleTask == [pc |-> "idle", part |-> 1, page |-> 1, pullRequests |-> <<>>, all |-> <<>>]

NewTask ==
  [pc |-> IF HasDateRange THEN "partHead" ELSE "queryHead",
   part |-> 1, page |-> 1, pullRequests |-> <<>>, all |-> <<>>]

(* searchQueries of fetchPullRequests: an author and a user query for each time range *)
SearchQueries ==
  IF HasDateRange
  THEN [i \in 1..(2 * Len(RunTimeRanges)) |->
          [q |-> IF i % 2 = 1 THEN "author" ELSE "user", range |-> (i + 1) \div 2]]
  ELSE <<[q |-> "author", range |-> 0], [q |-> "user", range |-> 0]>>

QueryHits(query) ==
  IF query.range = 0 THEN AllHits(query.q)
  ELSE ItemsOf(SelectIn(HitIds(query.q), RunTimeRanges[query.range]))

(* per_page of fetchPullRequests (lines 489-495) *)
DePerPage ==
  Min(PerPage, IF config.totalRecords > 0 THEN config.totalRecords - totalFetched ELSE PerPage)

Alive == exitCode = "none"

AllUserCommitRuns == variant = "all_user_commit" /\ Alive

InsightsRuns == variant = "developer_insights" /\ Alive

RunIdle ==
  /\ variant = "none"
  /\ config = [totalRecords |-> 0, ignoreDateRange |-> TRUE, includeDetails |-> TRUE,
               start |-> 0, end |-> RunEndDay, valid |-> TRUE]
  /\ remote = [repos |-> 0, commits |-> [i \in 1..MaxRepos |-> <<>>],
               author |-> <<>>, user |-> <<>>, account |-> "found"]
  /\ pc = "idle"
  /\ cancelled = FALSE
  /\ sigPc = "idle"
  /\ sigintPc = "none"
  /\ exitCode = "none"
  /\ totalFetched = 0
  /\ repos = <<>>
  /\ page = 1
  /\ repoIdx = 1
  /\ repoCommits = <<>>
  /\ formatted = <<>>
  /\ directCommits = <<>>
  /\ tasks = [q \in Queries |-> IdleTask]
  /\ pullRequests = <<>>
  /\ prIdx = 1
  /\ allPrCommits = <<>>
  /\ queryIdx = 1
  /\ commits = <<>>
  /\ reports = <<>>
  /\ inflight = {}
  /\ loopHead = NoLoop
  /\ runError = "none"
  /\ errors = <<>>
  /\ listingFailed = "none"
  /\ userValidated = FALSE
  /\ returned = 0

(* the state when the tool is started: nothing validated, nothing fetched *)
RunInit ==
  /\ variant \in {"all_user_commit", "developer_insights"}
  /\ config \in Configs
  /\ remote \in Remotes
  /\ variant = "developer_insights" =>
       (remote.repos = 0 /\ remote.account = "found" /\ config.valid)
  /\ pc = IF variant = "all_user_commit" THEN "construct" ELSE "dePageHead"
  /\ cancelled = FALSE
  /\ sigPc = "idle"
  /\ sigintPc = "none"
  /\ exitCode = "none"
  /\ totalFetched = 0
  /\ repos = <<>>
  /\ page = 1
  /\ repoIdx = 1
  /\ repoCommits = <<>>
  /\ formatted = <<>>
  /\ directCommits = <<>>
  /\ tasks = [q \in Queries |-> IdleTask]
  /\ pullRequests = <<>>
  /\ prIdx = 1
  /\ allPrCommits = <<>>
  /\ queryIdx = 1
  /\ commits = <<>>
  /\ reports = <<>>
  /\ inflight = {}
  /\ loopHead = NoLoop
  /\ runError = "none"
  /\ errors = <<>>
  /\ listingFailed = "none"
  /\ userValidated = FALSE
  /\ returned = 0

(* the constructor: ConfigSchema.safeParse; a configuration that does not parse *)
(* is reported and the process exits with 1 before the client is created *)
(* (lines 162-170) *)
Construct ==
  /\ AllUserCommitRuns
  /\ pc = "construct"
  /\ IF config.valid
     THEN /\ pc' = "validateUser"
          /\ UNCHANGED <<runError, exitCode>>
     ELSE /\ runError' = "config"
          /\ exitCode' = "exit1"
          /\ pc' = "failed"
  /\ UNCHANGED <<pureVars, worldVars, cancelled, sigPc, sigintPc, totalFetched, repos,
               page, repoIdx, repoCommits, formatted, directCommits, tasks, pullRequests,
               prIdx, allPrCommits, queryIdx, commits, reports, inflight, loopHead, errors,
               listingFailed, userValidated, returned>>

(* validateUser: GET /users/{username} is issued *)
ValidateUserRequest ==
  /\ AllUserCommitRuns
  /\ pc = "validateUser"
  /\ inflight' = inflight \cup {Req("user", 0)}
  /\ pc' = "validateUserWait"
  /\ UNCHANGED <<pureVars, worldVars, cancelled, sigPc, sigintPc, exitCode, totalFetched,
               repos, page, repoIdx, repoCommits, formatted, directCommits, tasks,
               pullRequests, prIdx, allPrCommits, queryIdx, commits, reports, loopHead,
               runError, errors, listingFailed, userValidated, returned>>

(* validateUser without its catch: the run goes on whatever the answer *)
ValidateUserUnchecked ==
  /\ AllUserCommitRuns
  /\ pc = "validateUserWait"
  /\ Req("user", 0) \in inflight
  /\ inflight' = inflight \ {Req("user", 0)}
  /\ userValidated' = (remote.account = "found")
  /\ repos' = <<>>
  /\ page' = 1
  /\ pc' = "reposHead"
  /\ UNCHANGED <<pureVars, worldVars, cancelled, sigPc, sigintPc, exitCode, totalFetched,
               repoIdx, repoCommits, formatted, directCommits, tasks, pullRequests, prIdx,
               allPrCommits, queryIdx, commits, reports, loopHead, runError, errors,
               listingFailed, returned>>

(* the user is validated; searchUserRepositoryCommits calls getUserRepositories *)
ValidateUserResponse ==
  /\ AllUserCommitRuns
  /\ pc = "validateUserWait"
  /\ Req("user", 0) \in inflight
  /\ remote.account = "found"
  /\ inflight' = inflight \ {Req("user", 0)}
  /\ userValidated' = TRUE
  /\ repos' = <<>>
  /\ page' = 1
  /\ pc' = "reposHead"
  /\ UNCHANGED <<pureVars, worldVars, cancelled, sigPc, sigintPc, exitCode, totalFetched,
               repoIdx, repoCommits, formatted, directCommits, tasks, pullRequests, prIdx,
               allPrCommits, queryIdx, commits, reports, loopHead, runError, errors,
               listingFailed, returned>>

(* validateUser: the request fails; the catch throws 'User not found' (404) or *)
(* 'Failed to validate user' (lines 333-338), nothing between analyzeUserCommits *)
(* and run() catches it, and the catch of run() writes the errors file and calls *)
(* process.exit(1) (lines 1355-1373) *)
ValidateUserFailure ==
  /\ AllUserCommitRuns
  /\ pc = "validateUserWait"
  /\ Req("user", 0) \in inflight
  /\ remote.account # "found"
  /\ inflight' = inflight \ {Req("user", 0)}
  /\ runError' = "validateUser"
  /\ exitCode' = "exit1"
  /\ pc' = "failed"
  /\ UNCHANGED <<pureVars, worldVars, cancelled, sigPc, sigintPc, totalFetched, repos,
               page, repoIdx, repoCommits, formatted, directCommits, tasks, pullRequests,
               prIdx, allPrCommits, queryIdx, commits, reports, loopHead, errors,
               listingFailed, userValidated, returned>>

(* getUserRepositories: head of the page loop, then GET /users/{username}/repos *)
ReposHead ==
  /\ AllUserCommitRuns
  /\ pc = "reposHead"
  /\ loopHead' = [loop |-> "getUserRepositories", tests |-> {"cancelled", "totalRecords"}]
  /\ IF LoopContinues(cancelled, config.totalRecords, totalFetched)
     THEN /\ inflight' = inflight \cup {Req("repos", page)}
          /\ pc' = "reposWait"
          /\ UNCHANGED repoIdx
     ELSE /\ repoIdx' = 1
          /\ pc' = "walkHead"
          /\ UNCHANGED inflight
  /\ UNCHANGED <<pureVars, worldVars, cancelled, sigPc, sigintPc, exitCode, totalFetched,
               repos, page, repoCommits, formatted, directCommits, tasks, pullRequests,
               prIdx, allPrCommits, queryIdx, commits, reports, runError, errors,
               listingFailed, userValidated, returned>>

(* getUserRepositories: a page of repositories arrives (lines 371-386) *)
ReposResponse ==
  /\ AllUserCommitRuns
  /\ pc = "reposWait"
  /\ Req("repos", page) \in inflight
  /\ inflight' = inflight \ {Req("repos", page)}
  /\ returned' = returned + Len(Page(RemoteRepoList, page, Min(PerPage, Remaining)))
  /\ LET response == Page(RemoteRepoList, page, Min(PerPage, Remaining))
         fetched == totalFetched + Len(response)
         excess == fetched - config.totalRecords
     IN IF Len(response) = 0
        THEN /\ repoIdx' = 1
             /\ pc' = "walkHead"
             /\ UNCHANGED <<repos, totalFetched, page>>
        ELSE IF Len(response) < PerPage
        THEN /\ repos' = repos \o response
             /\ totalFetched' = fetched
             /\ repoIdx' = 1
             /\ pc' = "walkHead"
             /\ UNCHANGED page
        ELSE IF checkTotalRecordsLimit(config.totalRecords, fetched)
        THEN /\ repos' = IF excess > 0 THEN DropLast(repos \o response, excess)
                         ELSE repos \o response
             /\ totalFetched' = IF excess > 0 THEN config.totalRecords ELSE fetched
             /\ repoIdx' = 1
             /\ pc' = "walkHead"
             /\ UNCHANGED page
        ELSE /\ repos' = repos \o response
             /\ totalFetched' = fetched
             /\ page' = page + 1
             /\ pc' = "reposHead"
             /\ UNCHANGED repoIdx
  /\ UNCHANGED <<pureVars, worldVars, cancelled, sigPc, sigintPc, exitCode, repoCommits,
               formatted, directCommits, tasks, pullRequests, prIdx, allPrCommits,
               queryIdx, commits, reports, loopHead, runError, errors, listingFailed,
               userValidated>>

(* getUserRepositories with a catch that asks for the failed page again *)
ReposFailureRetried ==
  /\ AllUserCommitRuns
  /\ pc = "reposWait"
  /\ Req("repos", page) \in inflight
  /\ inflight' = inflight \ {Req("repos", page)}
  /\ pc' = "reposHead"
  /\ UNCHANGED <<pureVars, worldVars, cancelled, sigPc, sigintPc, exitCode, totalFetched,
               repos, page, repoIdx, repoCommits, formatted, directCommits, tasks,
               pullRequests, prIdx, allPrCommits, queryIdx, commits, reports, loopHead,
               runError, errors, listingFailed, userValidated, returned>>

(* getUserRepositories: the listing request fails (lines 387-394): the failure is *)
(* pushed to this.errors, the loop breaks and the repositories of the earlier *)
(* pages are returned *)
ReposFailure ==
  /\ AllUserCommitRuns
  /\ pc = "reposWait"
  /\ Req("repos", page) \in inflight
  /\ inflight' = inflight \ {Req("repos", page)}
  /\ errors' = Append(errors, <<"getUserRepositories", 0>>)
  /\ repoIdx' = 1
  /\ pc' = "walkHead"
  /\ UNCHANGED <<pureVars, worldVars, cancelled, sigPc, sigintPc, exitCode, totalFetched,
               repos, page, repoCommits, formatted, directCommits, tasks, pullRequests,
               prIdx, allPrCommits, queryIdx, commits, reports, loopHead, runError,
               listingFailed, userValidated, returned>>

(* searchUserRepositoryCommits: head of the loop over filteredRepos (no org or *)
(* repo filter is configured); the next repository enters getRepositoryCommits *)
WalkHead ==
  /\ AllUserCommitRuns
  /\ pc = "walkHead"
  /\ IF repoIdx > Len(repos)
     THEN /\ pc' = "afterWalk"
          /\ UNCHANGED <<loopHead, repoCommits, page>>
     ELSE /\ loopHead' = [loop |-> "searchUserRepositoryCommits",
                          tests |-> {"cancelled", "totalRecords"}]
          /\ IF LoopBreaks(cancelled, config.totalRecords, totalFetched)
             THEN /\ pc' = "afterWalk"
                  /\ UNCHANGED <<repoCommits, page>>
             ELSE /\ repoCommits' = <<>>
                  /\ page' = 1
                  /\ pc' = "commitsHead"
  /\ UNCHANGED <<pureVars, worldVars, cancelled, sigPc, sigintPc, exitCode, totalFetched,
               repos, repoIdx, formatted, directCommits, tasks, pullRequests, prIdx,
               allPrCommits, queryIdx, commits, reports, inflight, runError, errors,
               listingFailed, userValidated, returned>>

(* getRepositoryCommits: head of the page loop, then GET /repos/{owner}/{repo}/commits *)
CommitsHead ==
  /\ AllUserCommitRuns
  /\ pc = "commitsHead"
  /\ loopHead' = [loop |-> "getRepositoryCommits", tests |-> {"cancelled", "totalRecords"}]
  /\ IF LoopContinues(cancelled, config.totalRecords, totalFetched)
     THEN /\ inflight' = inflight \cup {Req("commits", page)}
          /\ pc' = "commitsWait"
     ELSE /\ pc' = "repoDone"
          /\ UNCHANGED inflight
  /\ UNCHANGED <<pureVars, worldVars, cancelled, sigPc, sigintPc, exitCode, totalFetched,
               repos, page, repoIdx, repoCommits, formatted, directCommits, tasks,
               pullRequests, prIdx, allPrCommits, queryIdx, commits, reports, runError,
               errors, listingFailed, userValidated, returned>>

(* getRepositoryCommits: a page of commits arrives; Promise.all issues the detail *)
(* request of every commit of the page (lines 470-508) *)
CommitsResponse ==
  /\ AllUserCommitRuns
  /\ pc = "commitsWait"
  /\ Req("commits", page) \in inflight
  /\ returned' = returned + Len(Page(RemoteCommitList(repos[repoIdx]), page, Min(PerPage, Remaining)))
  /\ LET response == Page(RemoteCommitList(repos[repoIdx]), page, Min(PerPage, Remaining))
     IN IF Len(response) = 0
        THEN /\ inflight' = inflight \ {Req("commits", page)}
             /\ pc' = "repoDone"
             /\ UNCHANGED formatted
        ELSE /\ formatted' = response
             /\ inflight' = (inflight \ {Req("commits", page)}) \cup
                              (IF config.includeDetails THEN DetailReqs(Len(response)) ELSE {})
             /\ pc' = "detailsWait"
  /\ UNCHANGED <<pureVars, worldVars, cancelled, sigPc, sigintPc, exitCode, totalFetched,
               repos, page, repoIdx, repoCommits, directCommits, tasks, pullRequests,
               prIdx, allPrCommits, queryIdx, commits, reports, loopHead, runError, errors,
               listingFailed, userValidated>>

(* getRepositoryCommits with a catch that records every failure *)
CommitsFailureRecorded(status) ==
  /\ AllUserCommitRuns
  /\ pc = "commitsWait"
  /\ Req("commits", page) \in inflight
  /\ inflight' = inflight \ {Req("commits", page)}
  /\ errors' = Append(errors, <<"getRepositoryCommits", repoIdx>>)
  /\ listingFailed' = IF status \in SkippedStatuses THEN "skipped" ELSE "recorded"
  /\ pc' = "repoDone"
  /\ UNCHANGED <<pureVars, worldVars, cancelled, sigPc, sigintPc, exitCode, totalFetched,
               repos, page, repoIdx, repoCommits, formatted, directCommits, tasks,
               pullRequests, prIdx, allPrCommits, queryIdx, commits, reports, loopHead,
               runError, userValidated, returned>>

(* getRepositoryCommits: the listing request fails (lines 525-541): 409 and 404 *)
(* are logged and skipped, any other failure is pushed to this.errors; the loop *)
(* breaks and the commits of the earlier pages are returned *)
CommitsFailure(status) ==
  /\ AllUserCommitRuns
  /\ pc = "commitsWait"
  /\ Req("commits", page) \in inflight
  /\ inflight' = inflight \ {Req("commits", page)}
  /\ errors' = IF status \in SkippedStatuses THEN errors
                ELSE Append(errors, <<"getRepositoryCommits", repoIdx>>)
  /\ listingFailed' = IF status \in SkippedStatuses THEN "skipped" ELSE "recorded"
  /\ pc' = "repoDone"
  /\ UNCHANGED <<pureVars, worldVars, cancelled, sigPc, sigintPc, exitCode, totalFetched,
               repos, page, repoIdx, repoCommits, formatted, directCommits, tasks,
               pullRequests, prIdx, allPrCommits, queryIdx, commits, reports, loopHead,
               runError, userValidated, returned>>

(* getDetailedCommitInfo: the details of one commit arrive (a failure yields the *)
(* empty details, lines 432-442) *)
DetailResponse(i) ==
  /\ Alive
  /\ pc \in {"detailsWait", "prDetailsWait"}
  /\ Req("detail", i) \in inflight
  /\ inflight' = inflight \ {Req("detail", i)}
  /\ UNCHANGED <<pureVars, worldVars, pc, cancelled, sigPc, sigintPc, exitCode,
               totalFetched, repos, page, repoIdx, repoCommits, formatted, directCommits,
               tasks, pullRequests, prIdx, allPrCommits, queryIdx, commits, reports,
               loopHead, runError, errors, listingFailed, userValidated, returned>>

(* getRepositoryCommits: the page is pushed and counted (lines 510-524) *)
CommitsPageDone ==
  /\ AllUserCommitRuns
  /\ pc = "detailsWait"
  /\ inflight \cap DetailReqs(Len(formatted)) = {}
  /\ LET fetched == totalFetched + Len(formatted)
         excess == fetched - config.totalRecords
     IN IF Len(formatted) < PerPage
        THEN /\ repoCommits' = repoCommits \o formatted
             /\ totalFetched' = fetched
             /\ pc' = "repoDone"
             /\ UNCHANGED page
        ELSE IF checkTotalRecordsLimit(config.totalRecords, fetched)
        THEN /\ repoCommits' = IF excess > 0 THEN DropLast(repoCommits \o formatted, excess)
                               ELSE repoCommits \o formatted
             /\ totalFetched' = IF excess > 0 THEN config.totalRecords ELSE fetched
             /\ pc' = "repoDone"
             /\ UNCHANGED page
        ELSE /\ repoCommits' = repoCommits \o formatted
             /\ totalFetched' = fetched
             /\ page' = page + 1
             /\ pc' = "commitsHead"
  /\ formatted' = <<>>
  /\ UNCHANGED <<pureVars, worldVars, cancelled, sigPc, sigintPc, exitCode, repos, repoIdx,
               directCommits, tasks, pullRequests, prIdx, allPrCommits, queryIdx, commits,
               reports, inflight, loopHead, runError, errors, listingFailed, userValidated,
               returned>>

(* searchUserRepositoryCommits: the commits of the repository are pushed to *)
(* allCommits (lines 581-585) *)
RepoDone ==
  /\ AllUserCommitRuns
  /\ pc = "repoDone"
  /\ directCommits' = directCommits \o repoCommits
  /\ repoCommits' = <<>>
  /\ listingFailed' = "none"
  /\ IF LimitReached
     THEN /\ pc' = "afterWalk"
          /\ UNCHANGED repoIdx
     ELSE /\ repoIdx' = repoIdx + 1
          /\ pc' = "walkHead"
  /\ UNCHANGED <<pureVars, worldVars, cancelled, sigPc, sigintPc, exitCode, totalFetched,
               repos, page, formatted, tasks, pullRequests, prIdx, allPrCommits, queryIdx,
               commits, reports, inflight, loopHead, runError, errors, userValidated,
               returned>>

(* analyzeUserCommits: the pull-request search starts unless cancelled or at the *)
(* limit (line 903); both searchPullRequestsForUser calls start *)
AfterWalk ==
  /\ AllUserCommitRuns
  /\ pc = "afterWalk"
  /\ IF ~cancelled /\ ~LimitReached
     THEN /\ tasks' = [q \in Queries |-> NewTask]
          /\ pc' = "prSearch"
     ELSE /\ pc' = "finalize"
          /\ UNCHANGED tasks
  /\ UNCHANGED <<pureVars, worldVars, cancelled, sigPc, sigintPc, exitCode, totalFetched,
               repos, page, repoIdx, repoCommits, formatted, directCommits, pullRequests,
               prIdx, allPrCommits, queryIdx, commits, reports, inflight, loopHead,
               runError, errors, listingFailed, userValidated, returned>>

(* searchPullRequestsForUser: head of the loop over the date partitions *)
PartitionHead(q) ==
  /\ AllUserCommitRuns
  /\ pc = "prSearch"
  /\ tasks[q].pc = "partHead"
  /\ IF tasks[q].part > Len(RunPartitions)
     THEN /\ tasks' = [tasks EXCEPT ![q].pc = "done"]
          /\ UNCHANGED loopHead
     ELSE /\ loopHead' = [loop |-> "searchPullRequestsForUser",
                          tests |-> {"cancelled", "totalRecords"}]
          /\ IF LoopBreaks(cancelled, config.totalRecords, totalFetched)
             THEN tasks' = [tasks EXCEPT ![q].pc = "done"]
             ELSE tasks' = [tasks EXCEPT ![q].pc = "queryHead", ![q].page = 1,
                                         ![q].pullRequests = <<>>]
  /\ UNCHANGED <<pureVars, worldVars, pc, cancelled, sigPc, sigintPc, exitCode,
               totalFetched, repos, page, repoIdx, repoCommits, formatted, directCommits,
               pullRequests, prIdx, allPrCommits, queryIdx, commits, reports, inflight,
               runError, errors, listingFailed, userValidated, returned>>

(* searchPullRequestsForQuery: head of the page loop, then GET /search/issues *)
QueryHead(q) ==
  /\ AllUserCommitRuns
  /\ pc = "prSearch"
  /\ tasks[q].pc = "queryHead"
  /\ loopHead' = [loop |-> "searchPullRequestsForQuery", tests |-> {"cancelled", "totalRecords"}]
  /\ IF LoopContinues(cancelled, config.totalRecords, totalFetched)
     THEN /\ inflight' = inflight \cup {Req("search", q)}
          /\ tasks' = [tasks EXCEPT ![q].pc = "queryWait"]
     ELSE /\ tasks' = [tasks EXCEPT ![q].pc = "queryDone"]
          /\ UNCHANGED inflight
  /\ UNCHANGED <<pureVars, worldVars, pc, cancelled, sigPc, sigintPc, exitCode,
               totalFetched, repos, page, repoIdx, repoCommits, formatted, directCommits,
               pullRequests, prIdx, allPrCommits, queryIdx, commits, reports, runError,
               errors, listingFailed, userValidated, returned>>

(* searchPullRequestsForQuery: the request fails with 422 and the message of the *)
(* 1000-result ceiling: the loop breaks and keeps its pages (lines 746-756) *)
QueryCeiling(q) ==
  /\ AllUserCommitRuns
  /\ pc = "prSearch"
  /\ tasks[q].pc = "queryWait"
  /\ Req("search", q) \in inflight
  /\ BeyondCeiling(tasks[q].page, Min(PerPage, Remaining))
  /\ inflight' = inflight \ {Req("search", q)}
  /\ tasks' = [tasks EXCEPT ![q].pc = "queryDone"]
  /\ UNCHANGED <<pureVars, worldVars, pc, cancelled, sigPc, sigintPc, exitCode,
               totalFetched, repos, page, repoIdx, repoCommits, formatted, directCommits,
               pullRequests, prIdx, allPrCommits, queryIdx, commits, reports, loopHead,
               runError, errors, listingFailed, userValidated, returned>>

(* searchPullRequestsForQuery: the request fails with anything but the ceiling; *)
(* the catch rethrows (line 757), Promise.all rejects (line 598) and the catch of *)
(* run() writes the errors file with the message and the inputs and calls *)
(* process.exit(1) (lines 1355-1373): no report is written *)
QueryFailure(q) ==
  /\ AllUserCommitRuns
  /\ pc = "prSearch"
  /\ tasks[q].pc = "queryWait"
  /\ Req("search", q) \in inflight
  /\ inflight' = inflight \ {Req("search", q)}
  /\ runError' = "search"
  /\ exitCode' = "exit1"
  /\ pc' = "failed"
  /\ UNCHANGED <<pureVars, worldVars, cancelled, sigPc, sigintPc, totalFetched, repos,
               page, repoIdx, repoCommits, formatted, directCommits, tasks, pullRequests,
               prIdx, allPrCommits, queryIdx, commits, reports, loopHead, errors,
               listingFailed, userValidated, returned>>

(* searchPullRequestsForQuery: a page of search hits arrives (lines 731-745) *)
QueryResponse(q) ==
  /\ AllUserCommitRuns
  /\ pc = "prSearch"
  /\ tasks[q].pc = "queryWait"
  /\ Req("search", q) \in inflight
  /\ ~BeyondCeiling(tasks[q].page, Min(PerPage, Remaining))
  /\ inflight' = inflight \ {Req("search", q)}
  /\ returned' = returned + Len(Page(IF HasDateRange THEN PartitionHits(q, tasks[q].part) ELSE AllHits(q),
                                     tasks[q].page, Min(PerPage, Remaining)))
  /\ LET hits == IF HasDateRange THEN PartitionHits(q, tasks[q].part) ELSE AllHits(q)
         items == Page(hits, tasks[q].page, Min(PerPage, Remaining))
         found == tasks[q].pullRequests \o items
         excess == Len(found) - Remaining
     IN IF Len(items) = 0
        THEN tasks' = [tasks EXCEPT ![q].pc = "queryDone"]
        ELSE IF Len(items) < PerPage
        THEN tasks' = [tasks EXCEPT ![q].pc = "queryDone", ![q].pullRequests = found]
        ELSE IF LimitReached
        THEN tasks' = [tasks EXCEPT ![q].pc = "queryDone",
                         ![q].pullRequests = IF excess > 0 THEN DropLast(found, excess)
                                             ELSE found]
        ELSE tasks' = [tasks EXCEPT ![q].pc = "queryHead", ![q].pullRequests = found,
                                    ![q].page = @ + 1]
  /\ UNCHANGED <<pureVars, worldVars, pc, cancelled, sigPc, sigintPc, exitCode,
               totalFetched, repos, page, repoIdx, repoCommits, formatted, directCommits,
               pullRequests, prIdx, allPrCommits, queryIdx, commits, reports, loopHead,
               runError, errors, listingFailed, userValidated>>

(* searchPullRequestsForUser: the results of a query are pushed (lines 660-672) *)
QueryDone(q) ==
  /\ AllUserCommitRuns
  /\ pc = "prSearch"
  /\ tasks[q].pc = "queryDone"
  /\ LET all == tasks[q].all \o tasks[q].pullRequests
         excess == Len(all) - Remaining
     IN IF ~HasDateRange
        THEN tasks' = [tasks EXCEPT ![q].pc = "done", ![q].all = all]
        ELSE IF LimitReached
        THEN tasks' = [tasks EXCEPT ![q].pc = "done",
                         ![q].all = IF excess > 0 THEN DropLast(all, excess) ELSE all]
        ELSE tasks' = [tasks EXCEPT ![q].pc = "partHead", ![q].all = all,
                                    ![q].part = @ + 1]
  /\ UNCHANGED <<pureVars, worldVars, pc, cancelled, sigPc, sigintPc, exitCode,
               totalFetched, repos, page, repoIdx, repoCommits, formatted, directCommits,
               pullRequests, prIdx, allPrCommits, queryIdx, commits, reports, inflight,
               loopHead, runError, errors, listingFailed, userValidated, returned>>

(* searchPullRequestsWithPartitioning: Promise.all resolves, the two result lists *)
(* are merged and cut to the budget (lines 598-620); analyzeUserCommits then *)
(* decides whether the commits of the pull requests are fetched (lines 922-926) *)
SearchMerge ==
  /\ AllUserCommitRuns
  /\ pc = "prSearch"
  /\ \A q \in Queries : tasks[q].pc = "done"
  /\ LET uniquePRs == ApplyRecordLimit(UniquePRs(tasks["author"].all \o tasks["user"].all),
                                       config.totalRecords, totalFetched)
         fetched == IF config.totalRecords > 0 THEN totalFetched + Len(uniquePRs)
                    ELSE totalFetched
     IN /\ pullRequests' = uniquePRs
        /\ totalFetched' = fetched
        /\ prIdx' = 1
        /\ allPrCommits' = <<>>
        /\ pc' = IF /\ Len(uniquePRs) > 0
                    /\ ~cancelled
                    /\ ~checkTotalRecordsLimit(config.totalRecords, fetched)
                 THEN "prLoopHead" ELSE "finalize"
  /\ tasks' = [q \in Queries |-> IdleTask]
  /\ UNCHANGED <<pureVars, worldVars, cancelled, sigPc, sigintPc, exitCode, repos, page,
               repoIdx, repoCommits, formatted, directCommits, queryIdx, commits, reports,
               inflight, loopHead, runError, errors, listingFailed, userValidated,
               returned>>

(* analyzeUserCommits: head of the loop over pullRequests, then getPullRequestCommits *)
(* issues GET /repos/{owner}/{repo}/pulls/{number}/commits *)
PrLoopHead ==
  /\ AllUserCommitRuns
  /\ pc = "prLoopHead"
  /\ IF prIdx > Len(pullRequests)
     THEN /\ pc' = "reconcile"
          /\ UNCHANGED <<loopHead, inflight>>
     ELSE /\ loopHead' = [loop |-> "analyzeUserCommits", tests |-> {"cancelled", "totalRecords"}]
          /\ IF LoopBreaks(cancelled, config.totalRecords, totalFetched)
             THEN /\ pc' = "reconcile"
                  /\ UNCHANGED inflight
             ELSE /\ inflight' = inflight \cup {Req("prCommits", prIdx)}
                  /\ pc' = "prCommitsWait"
  /\ UNCHANGED <<pureVars, worldVars, cancelled, sigPc, sigintPc, exitCode, totalFetched,
               repos, page, repoIdx, repoCommits, formatted, directCommits, tasks,
               pullRequests, prIdx, allPrCommits, queryIdx, commits, reports, runError,
               errors, listingFailed, userValidated, returned>>

(* getPullRequestCommits: the commits of the pull request arrive; Promise.all *)
(* issues the detail request of every commit (lines 766-802) *)
PrCommitsResponse ==
  /\ AllUserCommitRuns
  /\ pc = "prCommitsWait"
  /\ Req("prCommits", prIdx) \in inflight
  /\ \E shas \in PrShaLists :
       /\ formatted' = [i \in 1..Len(shas) |-> PrCommitOf(shas[i], pullRequests[prIdx].number)]
       /\ inflight' = (inflight \ {Req("prCommits", prIdx)}) \cup
                        (IF config.includeDetails THEN DetailReqs(Len(shas)) ELSE {})
  /\ pc' = "prDetailsWait"
  /\ UNCHANGED <<pureVars, worldVars, cancelled, sigPc, sigintPc, exitCode, totalFetched,
               repos, page, repoIdx, repoCommits, directCommits, tasks, pullRequests,
               prIdx, allPrCommits, queryIdx, commits, reports, loopHead, runError, errors,
               listingFailed, userValidated, returned>>

(* analyzeUserCommits: the commits of the pull request are pushed (lines 944-946) *)
PrCommitsDone ==
  /\ AllUserCommitRuns
  /\ pc = "prDetailsWait"
  /\ inflight \cap DetailReqs(Len(formatted)) = {}
  /\ allPrCommits' = allPrCommits \o formatted
  /\ formatted' = <<>>
  /\ prIdx' = prIdx + 1
  /\ pc' = "prLoopHead"
  /\ UNCHANGED <<pureVars, worldVars, cancelled, sigPc, sigintPc, exitCode, totalFetched,
               repos, page, repoIdx, repoCommits, directCommits, tasks, pullRequests,
               queryIdx, commits, reports, inflight, loopHead, runError, errors,
               listingFailed, userValidated, returned>>

(* analyzeUserCommits: the two reconciliation loops (lines 953-970) *)
ReconcileCommits ==
  /\ AllUserCommitRuns
  /\ pc = "reconcile"
  /\ directCommits' = Reconcile(directCommits, allPrCommits)
  /\ pc' = "finalize"
  /\ UNCHANGED <<pureVars, worldVars, cancelled, sigPc, sigintPc, exitCode, totalFetched,
               repos, page, repoIdx, repoCommits, formatted, tasks, pullRequests, prIdx,
               allPrCommits, queryIdx, commits, reports, inflight, loopHead, runError,
               errors, listingFailed, userValidated, returned>>

(* analyzeUserCommits: this.commits = directCommits.map(...) (lines 973-976) *)
Finalize ==
  /\ AllUserCommitRuns
  /\ pc = "finalize"
  /\ commits' = directCommits
  /\ pc' = "report"
  /\ UNCHANGED <<pureVars, worldVars, cancelled, sigPc, sigintPc, exitCode, totalFetched,
               repos, page, repoIdx, repoCommits, formatted, directCommits, tasks,
               pullRequests, prIdx, allPrCommits, queryIdx, reports, inflight, loopHead,
               runError, errors, listingFailed, userValidated, returned>>

(* run: generateReport starts and awaits fs.mkdir (line 1093) *)
RunReportStart ==
  /\ AllUserCommitRuns
  /\ pc = "report"
  /\ pc' = "reportWrite"
  /\ UNCHANGED <<pureVars, worldVars, cancelled, sigPc, sigintPc, exitCode, totalFetched,
               repos, page, repoIdx, repoCommits, formatted, directCommits, tasks,
               pullRequests, prIdx, allPrCommits, queryIdx, commits, reports, inflight,
               loopHead, runError, errors, listingFailed, userValidated, returned>>

(* run: generateReport builds the report from this.commits and writes the file *)
RunReportWrite ==
  /\ AllUserCommitRuns
  /\ pc = "reportWrite"
  /\ reports' = Append(reports, [by |-> "run", commits |-> commits, cancelled |-> cancelled])
  /\ pc' = "rateLimit"
  /\ UNCHANGED <<pureVars, worldVars, cancelled, sigPc, sigintPc, exitCode, totalFetched,
               repos, page, repoIdx, repoCommits, formatted, directCommits, tasks,
               pullRequests, prIdx, allPrCommits, queryIdx, commits, inflight, loopHead,
               runError, errors, listingFailed, userValidated, returned>>

(* run: showRateLimit issues GET /rate_limit *)
RateLimitRequest ==
  /\ AllUserCommitRuns
  /\ pc = "rateLimit"
  /\ inflight' = inflight \cup {Req("rateLimit", 0)}
  /\ pc' = "rateLimitWait"
  /\ UNCHANGED <<pureVars, worldVars, cancelled, sigPc, sigintPc, exitCode, totalFetched,
               repos, page, repoIdx, repoCommits, formatted, directCommits, tasks,
               pullRequests, prIdx, allPrCommits, queryIdx, commits, reports, loopHead,
               runError, errors, listingFailed, userValidated, returned>>

(* run: the rate limit is shown and run returns *)
RateLimitResponse ==
  /\ AllUserCommitRuns
  /\ pc = "rateLimitWait"
  /\ Req("rateLimit", 0) \in inflight
  /\ inflight' = inflight \ {Req("rateLimit", 0)}
  /\ pc' = "done"
  /\ UNCHANGED <<pureVars, worldVars, cancelled, sigPc, sigintPc, exitCode, totalFetched,
               repos, page, repoIdx, repoCommits, formatted, directCommits, tasks,
               pullRequests, prIdx, allPrCommits, queryIdx, commits, reports, loopHead,
               runError, errors, listingFailed, userValidated, returned>>

(* the process ends when run has returned and nothing is pending *)
ProcessEnd ==
  /\ Alive
  /\ pc \in {"done", "deDone"}
  /\ sigPc = "idle"
  /\ exitCode' = "exit0"
  /\ UNCHANGED <<pureVars, worldVars, pc, cancelled, sigPc, sigintPc, totalFetched, repos,
               page, repoIdx, repoCommits, formatted, directCommits, tasks, pullRequests,
               prIdx, allPrCommits, queryIdx, commits, reports, inflight, loopHead,
               runError, errors, listingFailed, userValidated, returned>>

(* the SIGINT handler (lines 190-196) sets the flag and awaits savePartialResults. *)
(* With this.commits empty savePartialResults awaits nothing: the handler resumes *)
(* in the next microtask, before any response can be delivered, and calls *)
(* process.exit(0).  Otherwise generateReport awaits fs.mkdir and run() goes on *)
Sigint ==
  /\ AllUserCommitRuns
  /\ sigPc = "idle"
  /\ pc \notin {"construct", "done"}
  /\ cancelled' = TRUE
  /\ sigintPc' = pc
  /\ IF Len(commits) > 0
     THEN /\ sigPc' = "mkdir"
          /\ UNCHANGED exitCode
     ELSE /\ sigPc' = "done"
          /\ exitCode' = "exit0"
  /\ UNCHANGED <<pureVars, worldVars, pc, totalFetched, repos, page, repoIdx, repoCommits,
               formatted, directCommits, tasks, pullRequests, prIdx, allPrCommits,
               queryIdx, commits, reports, inflight, loopHead, runError, errors,
               listingFailed, userValidated, returned>>

(* savePartialResults: generateReport writes the report file *)
SigReportWrite ==
  /\ AllUserCommitRuns
  /\ sigPc = "mkdir"
  /\ reports' = Append(reports, [by |-> "sigint", commits |-> commits, cancelled |-> cancelled])
  /\ sigPc' = "exit"
  /\ UNCHANGED <<pureVars, worldVars, pc, cancelled, sigintPc, exitCode, totalFetched,
               repos, page, repoIdx, repoCommits, formatted, directCommits, tasks,
               pullRequests, prIdx, allPrCommits, queryIdx, commits, inflight, loopHead,
               runError, errors, listingFailed, userValidated, returned>>

(* the SIGINT handler resumes after savePartialResults and calls process.exit(0) *)
SigExit ==
  /\ AllUserCommitRuns
  /\ sigPc = "exit"
  /\ exitCode' = "exit0"
  /\ sigPc' = "done"
  /\ UNCHANGED <<pureVars, worldVars, pc, cancelled, sigintPc, totalFetched, repos, page,
               repoIdx, repoCommits, formatted, directCommits, tasks, pullRequests, prIdx,
               allPrCommits, queryIdx, commits, reports, inflight, loopHead, runError,
               errors, listingFailed, userValidated, returned>>

(* fetchPullRequests: the loop over searchQueries and the head of its page loop *)
(* (lines 474-499), then GET /search/issues; after the last query the list is *)
(* deduplicated by id (lines 541-543) *)
DePageHead ==
  /\ InsightsRuns
  /\ pc = "dePageHead"
  /\ IF queryIdx > Len(SearchQueries)
     THEN /\ pullRequests' = UniqueById(pullRequests)
          /\ pc' = "deDone"
          /\ UNCHANGED <<loopHead, inflight, queryIdx, page>>
     ELSE /\ loopHead' = [loop |-> "fetchPullRequests", tests |-> {"totalRecords"}]
          /\ UNCHANGED pullRequests
          /\ IF LimitReached
             THEN /\ queryIdx' = queryIdx + 1
                  /\ page' = 1
                  /\ UNCHANGED <<inflight, pc>>
             ELSE /\ inflight' = inflight \cup {Req("search", queryIdx)}
                  /\ pc' = "deSearchWait"
                  /\ UNCHANGED <<queryIdx, page>>
  /\ UNCHANGED <<pureVars, worldVars, cancelled, sigPc, sigintPc, exitCode, totalFetched,
               repos, repoIdx, repoCommits, formatted, directCommits, tasks, prIdx,
               allPrCommits, commits, reports, runError, errors, listingFailed,
               userValidated, returned>>

(* fetchPullRequests: the request fails with 422 at the 1000-result ceiling; the *)
(* error leaves makeSearchRequest (line 324), the catch of fetchPullRequests wraps *)
(* it (lines 547-549) and the pull requests collected so far are dropped *)
DeSearchCeiling ==
  /\ InsightsRuns
  /\ pc = "deSearchWait"
  /\ Req("search", queryIdx) \in inflight
  /\ BeyondCeiling(page, DePerPage)
  /\ inflight' = inflight \ {Req("search", queryIdx)}
  /\ pullRequests' = <<>>
  /\ runError' = "ceiling"
  /\ pc' = "deCatch"
  /\ UNCHANGED <<pureVars, worldVars, cancelled, sigPc, sigintPc, exitCode, totalFetched,
               repos, page, repoIdx, repoCommits, formatted, directCommits, tasks, prIdx,
               allPrCommits, queryIdx, commits, reports, loopHead, errors, listingFailed,
               userValidated, returned>>

(* DeveloperInsights.run: the catch writes the errors file and returns success *)
(* false; main calls process.exit(1) *)
DeRunCatch ==
  /\ InsightsRuns
  /\ pc = "deCatch"
  /\ exitCode' = "exit1"
  /\ pc' = "deFailed"
  /\ UNCHANGED <<pureVars, worldVars, cancelled, sigPc, sigintPc, totalFetched, repos,
               page, repoIdx, repoCommits, formatted, directCommits, tasks, pullRequests,
               prIdx, allPrCommits, queryIdx, commits, reports, inflight, loopHead,
               runError, errors, listingFailed, userValidated, returned>>

(* fetchPullRequests: a page of search hits arrives and is counted (lines 501-503) *)
DeSearchResponse ==
  /\ InsightsRuns
  /\ pc = "deSearchWait"
  /\ Req("search", queryIdx) \in inflight
  /\ ~BeyondCeiling(page, DePerPage)
  /\ inflight' = inflight \ {Req("search", queryIdx)}
  /\ returned' = returned + Len(Page(QueryHits(SearchQueries[queryIdx]), page, DePerPage))
  /\ LET items == Page(QueryHits(SearchQueries[queryIdx]), page, DePerPage)
     IN IF Len(items) = 0
        THEN /\ queryIdx' = queryIdx + 1
             /\ page' = 1
             /\ pc' = "dePageHead"
             /\ UNCHANGED <<totalFetched, formatted, prIdx>>
        ELSE /\ totalFetched' = totalFetched + Len(items)
             /\ formatted' = items
             /\ prIdx' = 1
             /\ pc' = "deItemHead"
             /\ UNCHANGED <<queryIdx, page>>
  /\ UNCHANGED <<pureVars, worldVars, cancelled, sigPc, sigintPc, exitCode, repos, repoIdx,
               repoCommits, directCommits, tasks, pullRequests, allPrCommits, commits,
               reports, loopHead, runError, errors, listingFailed, userValidated>>

(* fetchPullRequests: the loop over the hits of the page (lines 506-536); makeRequest *)
(* throws once the record limit is reached (lines 223-230) and the hit is skipped *)
DeItemHead ==
  /\ InsightsRuns
  /\ pc = "deItemHead"
  /\ IF prIdx > Len(formatted)
     THEN /\ IF Len(formatted) < PerPage
             THEN /\ queryIdx' = queryIdx + 1
                  /\ page' = 1
             ELSE /\ page' = page + 1
                  /\ UNCHANGED queryIdx
          /\ formatted' = <<>>
          /\ pc' = "dePageHead"
          /\ UNCHANGED <<inflight, prIdx>>
     ELSE IF LimitReached
     THEN /\ prIdx' = prIdx + 1
          /\ UNCHANGED <<inflight, pc, queryIdx, page, formatted>>
     ELSE /\ inflight' = inflight \cup {Req("prDetail", prIdx)}
          /\ pc' = "deItemWait"
          /\ UNCHANGED <<prIdx, queryIdx, page, formatted>>
  /\ UNCHANGED <<pureVars, worldVars, cancelled, sigPc, sigintPc, exitCode, totalFetched,
               repos, repoIdx, repoCommits, directCommits, tasks, pullRequests,
               allPrCommits, commits, reports, loopHead, runError, errors, listingFailed,
               userValidated, returned>>

(* fetchPullRequests: the detail of a pull request arrives and is pushed *)
DeItemResponse ==
  /\ InsightsRuns
  /\ pc = "deItemWait"
  /\ Req("prDetail", prIdx) \in inflight
  /\ inflight' = inflight \ {Req("prDetail", prIdx)}
  /\ pullRequests' = Append(pullRequests, formatted[prIdx])
  /\ prIdx' = prIdx + 1
  /\ pc' = "deItemHead"
  /\ UNCHANGED <<pureVars, worldVars, cancelled, sigPc, sigintPc, exitCode, totalFetched,
               repos, page, repoIdx, repoCommits, formatted, directCommits, tasks,
               allPrCommits, queryIdx, commits, reports, loopHead, runError, errors,
               listingFailed, userValidated, returned>>

(* developer_insights installs no SIGINT handler: the signal ends the process *)
SigintDefault ==
  /\ InsightsRuns
  /\ pc \notin {"deDone", "deFailed"}
  /\ sigintPc' = pc
  /\ exitCode' = "killed"
  /\ UNCHANGED <<pureVars, worldVars, pc, cancelled, sigPc, totalFetched, repos, page,
               repoIdx, repoCommits, formatted, directCommits, tasks, pullRequests, prIdx,
               allPrCommits, queryIdx, commits, reports, inflight, loopHead, runError,
               errors, listingFailed, userValidated, returned>>

Init == ReconcileIdle /\ PartitionIdle /\ MergeIdle /\ QuotaIdle /\ StatusIdle /\ RunInit

Next ==
  \/ Construct
  \/ ValidateUserRequest
  \/ ValidateUserResponse
  \/ ValidateUserFailure
  \/ ReposHead
  \/ ReposResponse
  \/ WalkHead
  \/ CommitsHead
  \/ CommitsResponse
  \/ \E status \in FailureStatuses : CommitsFailure(status)
  \/ \E i \in 1..Max(PerPage, MaxPrCommits) : DetailResponse(i)
  \/ CommitsPageDone
  \/ RepoDone
  \/ AfterWalk
  \/ \E q \in Queries : PartitionHead(q)
  \/ \E q \in Queries : QueryHead(q)
  \/ \E q \in Queries : QueryCeiling(q)
  \/ \E q \in Queries : QueryFailure(q)
  \/ \E q \in Queries : QueryResponse(q)
  \/ \E q \in Queries : QueryDone(q)
  \/ SearchMerge
  \/ PrLoopHead
  \/ PrCommitsResponse
  \/ PrCommitsDone
  \/ ReconcileCommits
  \/ Finalize
  \/ RunReportStart
  \/ RunReportWrite
  \/ RateLimitRequest
  \/ RateLimitResponse
  \/ ProcessEnd
  \/ Sigint
  \/ SigReportWrite
  \/ SigExit
  \/ DePageHead
  \/ DeSearchCeiling
  \/ DeRunCatch
  \/ DeSearchResponse
  \/ DeItemHead
  \/ DeItemResponse
  \/ SigintDefault

Spec == Init /\ [][Next]_vars

(***************************************************************************)
(* The run under fairness.  The event loop runs every continuation that is *)
(* ready and the remote service answers every request, with a page or with *)
(* a failure, the listing of the repositories included; a signal may come  *)
(* or not.  The remote holds the same pull requests for both queries; it   *)
(* holds no repository or a full page of them, each without commits or     *)
(* with a full page of the same commits.                                   *)
(***************************************************************************)
InitLive ==
  /\ Init
  /\ remote.author = remote.user
  /\ remote.repos \in {0, MaxRepos}
  /\ \A i \in 1..remote.repos : remote.commits[i] \in {<<>>, [j \in 1..MaxRepoCommits |-> j]}
  /\ \A i \in 1..remote.repos : remote.commits[i] = remote.commits[1]

NextLive ==
  \/ Next
  \/ ReposFailure

(* the steps inside the pagination loops: the heads, the answers to the page *)
(* requests and the requests for the details of a page                       *)
LoopStep ==
  \/ ReposHead
  \/ ReposResponse
  \/ ReposFailure
  \/ CommitsHead
  \/ CommitsResponse
  \/ \E status \in FailureStatuses : CommitsFailure(status)
  \/ \E i \in 1..Max(PerPage, MaxPrCommits) : DetailResponse(i)
  \/ CommitsPageDone
  \/ \E q \in Queries : QueryHead(q)
  \/ \E q \in Queries : QueryCeiling(q)
  \/ \E q \in Queries : QueryFailure(q)
  \/ \E q \in Queries : QueryResponse(q)
  \/ DePageHead
  \/ DeSearchCeiling
  \/ DeSearchResponse
  \/ DeItemHead
  \/ DeItemResponse

SpecLive == InitLive /\ [][NextLive]_vars /\ WF_vars(LoopStep)

(***************************************************************************)
(* Specifications of the pure steps                                        *)
(***************************************************************************)
InitReconcile == ReconcileInit /\ PartitionIdle /\ MergeIdle /\ QuotaIdle /\ StatusIdle /\ RunIdle

NextReconcile ==
  \/ DoReconcile /\ UNCHANGED <<dpVars, mgVars, qtVars, usVars, worldVars, runVars>>
  \/ DoReconcileAgain /\ UNCHANGED <<dpVars, mgVars, qtVars, usVars, worldVars, runVars>>

SpecReconcile == InitReconcile /\ [][NextReconcile]_vars

InitPartition == ReconcileIdle /\ PartitionInit /\ MergeIdle /\ QuotaIdle /\ StatusIdle /\ RunIdle

NextPartition == DoPartition /\ UNCHANGED <<rcVars, mgVars, qtVars, usVars, worldVars, runVars>>

SpecPartition == InitPartition /\ [][NextPartition]_vars

InitMerge == ReconcileIdle /\ PartitionIdle /\ MergeInit /\ QuotaIdle /\ StatusIdle /\ RunIdle

NextMerge == DoMerge /\ UNCHANGED <<rcVars, dpVars, qtVars, usVars, worldVars, runVars>>

SpecMerge == InitMerge /\ [][NextMerge]_vars

InitQuota == ReconcileIdle /\ PartitionIdle /\ MergeIdle /\ QuotaInit /\ StatusIdle /\ RunIdle

NextQuota ==
  \/ AucQuotaStatus /\ UNCHANGED <<rcVars, dpVars, mgVars, usVars, worldVars, runVars>>
  \/ DeQuotaStatus /\ UNCHANGED <<rcVars, dpVars, mgVars, usVars, worldVars, runVars>>
  \/ GusQuotaStatus /\ UNCHANGED <<rcVars, dpVars, mgVars, usVars, worldVars, runVars>>

SpecQuota == InitQuota /\ [][NextQuota]_vars

InitStatus == ReconcileIdle /\ PartitionIdle /\ MergeIdle /\ QuotaIdle /\ StatusInit /\ RunIdle

NextStatus ==
  \/ checkRateLimit /\ UNCHANGED <<rcVars, dpVars, mgVars, qtVars, worldVars, runVars>>
  \/ validateUser /\ UNCHANGED <<rcVars, dpVars, mgVars, qtVars, worldVars, runVars>>
  \/ searchForUser /\ UNCHANGED <<rcVars, dpVars, mgVars, qtVars, worldVars, runVars>>
  \/ saveReport /\ UNCHANGED <<rcVars, dpVars, mgVars, qtVars, worldVars, runVars>>
  \/ showRateLimit /\ UNCHANGED <<rcVars, dpVars, mgVars, qtVars, worldVars, runVars>>

SpecStatus == InitStatus /\ [][NextStatus]_vars

(***************************************************************************)
(* Properties of the reconciliation step                                   *)
(***************************************************************************)
CountSha(list, sha) == Cardinality({i \in 1..Len(list) : list[i].sha = sha})

PrNumbersOf(list, sha) == {list[k].pullRequest : k \in {j \in 1..Len(list) : list[j].sha = sha}}

(* C1: the reconciled commit list contains no two entries with the same sha, *)
(* for any list of direct commits and any list of PR commits                 *)
C1_NoDuplicateSha ==
  rcPc = "done" =>
    \A i, j \in 1..Len(rcOut) : i # j => rcOut[i].sha # rcOut[j].sha

(* C2: every commit of the direct walk whose sha is in the PR-commit list is *)
(* retyped 'pull_request' with the number of a PR commit of that sha, and    *)
(* the number of entries with that sha is unchanged                          *)
C2_DirectReclassified ==
  rcPc = "done" =>
    \A i \in 1..Len(rcDirect) :
      rcDirect[i].sha \in Shas(rcPr) =>
        /\ rcOut[i].sha = rcDirect[i].sha
        /\ rcOut[i].type = "pull_request"
        /\ rcOut[i].pullRequest \in PrNumbersOf(rcPr, rcDirect[i].sha)
        /\ CountSha(rcOut, rcDirect[i].sha) = CountSha(rcDirect, rcDirect[i].sha)

(* C3: every sha of the PR-commit list that no direct commit has appears in  *)
(* the output exactly once, as a 'pull_request' commit with a PR number of   *)
(* that sha, after all the commits of the direct walk                        *)
C3_PrOnlyAppendedOnce ==
  rcPc = "done" =>
    /\ Len(rcOut) >= Len(rcDirect)
    /\ \A i \in 1..Len(rcDirect) : rcOut[i].sha = rcDirect[i].sha
    /\ \A sha \in Shas(rcPr) \ Shas(rcDirect) :
         /\ CountSha(rcOut, sha) = 1
         /\ \A j \in 1..Len(rcOut) :
              rcOut[j].sha = sha =>
                /\ j > Len(rcDirect)
                /\ rcOut[j].type = "pull_request"
                /\ rcOut[j].pullRequest \in PrNumbersOf(rcPr, sha)

(* a PR-only sha listed by two pull requests, behind a non-empty direct walk *)
C3_Witness ==
  /\ rcPc = "done"
  /\ Len(rcDirect) > 0
  /\ \E sha \in Shas(rcPr) \ Shas(rcDirect) :
       /\ CountSha(rcPr, sha) = 2
       /\ Cardinality(PrNumbersOf(rcPr, sha)) = 2
       /\ CountSha(rcOut, sha) = 1

(***************************************************************************)
(* Properties of the date partitioner                                      *)
(***************************************************************************)
CoversRange(parts, start, end) ==
  /\ Len(parts) >= 1
  /\ parts[1].start = start
  /\ parts[Len(parts)].end = end
  /\ \A i \in 1..Len(parts) : parts[i].start <= parts[i].end
  /\ \A i \in 1..(Len(parts) - 1) : parts[i + 1].start = parts[i].end + 1

(* C4: for start <= end the partitions of createDatePartitions and of        *)
(* generateTimeRanges cover every day from start to end exactly once         *)
C4_PartitionsCoverRange ==
  (dpPc = "done" /\ dpStart <= dpEnd) =>
    /\ CoversRange(dpParts, dpStart, dpEnd)
    /\ CoversRange(dpRanges, dpStart, dpEnd)

(***************************************************************************)
(* Properties of the dual-query merge                                      *)
(***************************************************************************)
NoDuplicateId(list) == \A i, j \in 1..Len(list) : i # j => list[i].id # list[j].id

WalkPcs == {"walkHead", "commitsHead", "commitsWait", "detailsWait", "repoDone"}

(* C5: with totalRecords > 0 the commit collection handed to report          *)
(* generation (this.commits) never holds more than totalRecords entries      *)
C5_FinalCommitsWithinBudget ==
  (variant = "all_user_commit" /\ config.totalRecords > 0) =>
    Len(commits) <= config.totalRecords

(* C8: when SIGINT arrived during the repository walk, the commits gathered  *)
(* from the repositories processed so far have been written as a partial     *)
(* report by the time the process has exited                                 *)
C8_PartialReportBeforeExit ==
  (exitCode # "none" /\ sigintPc \in WalkPcs /\ Len(directCommits) > 0) =>
    \E i \in 1..Len(reports) : reports[i].commits = directCommits

(* C9: every pagination loop, in every fetch variant, tests the cancellation *)
(* flag at the head of each iteration                                        *)
C9_EveryLoopTestsCancelled ==
  loopHead.loop # "none" => "cancelled" \in loopHead.tests

(* C10: when the process exits after SIGINT, no request is still in flight:  *)
(* every request issued has been answered                                    *)
C10_InflightCompleteBeforeExit ==
  (sigintPc # "none" /\ exitCode = "exit0") => inflight = {}

(***************************************************************************)
(* Idempotence of the reconciliation                                       *)
(***************************************************************************)
(* C20: reconciling the output of a reconciliation with an empty PR-commit   *)
(* list changes nothing: same entries, same order, same type and pullRequest *)
C20_ReconcileAgainIsNoOp ==
  rcPc = "again" => rcAgain = rcOut

(* the first reconciliation retyped a direct commit and appended a PR commit *)
C20_Witness ==
  /\ rcPc = "again"
  /\ Len(rcOut) > Len(rcDirect)
  /\ \E i \in 1..Len(rcDirect) : rcOut[i].type = "pull_request"
  /\ rcAgain = rcOut

(***************************************************************************)
(* Budget accounting                                                       *)
(***************************************************************************)
(* the records a step appends to the collections that receive fetched        *)
(* records: repos, the commits of a repository, the pull requests of a       *)
(* search query, the commits of the pull requests                            *)
Grown(before, after) == IF Len(after) > Len(before) THEN Len(after) - Len(before) ELSE 0

AppendedByStep ==
  Grown(repos, repos') + Grown(repoCommits, repoCommits')
    + Grown(tasks["author"].pullRequests, tasks'["author"].pullRequests)
    + Grown(tasks["user"].pullRequests, tasks'["user"].pullRequests)
    + Grown(allPrCommits, allPrCommits')

(* C11: with a budget greater than 0, a step that appends fetched records to *)
(* a collection raises totalFetched by the number of records it appends      *)
C11_AccountingAtEveryAppend ==
  [][(variant = "all_user_commit" /\ config.totalRecords > 0 /\ AppendedByStep > 0)
       => totalFetched' = totalFetched + AppendedByStep]_vars

(* the distinct commits the repositories of the user hold *)
AvailableShas == UNION {{remote.commits[r][i] : i \in 1..Len(remote.commits[r])} : r \in 1..remote.repos}

(* C12: with a budget b > 0 and more than b records available, the final     *)
(* collection handed to report generation holds exactly b entries            *)
C12_FinalCollectionExactlyAtCap ==
  (/\ variant = "all_user_commit"
   /\ pc = "report"
   /\ sigintPc = "none"
   /\ config.totalRecords > 0
   /\ Cardinality(AvailableShas) > config.totalRecords)
    => Len(commits) = config.totalRecords

(***************************************************************************)
(* Failures of requests                                                    *)
(***************************************************************************)
(* C13: the 1000-result ceiling of a search query ends that query only: it   *)
(* never becomes the error that reaches the top level of the run, in any     *)
(* fetch variant                                                             *)
C13_CeilingNeverFailsTheRun ==
  runError # "ceiling"


(***************************************************************************)
(* A commit listing that fails with 409 or 404                             *)
(***************************************************************************)
NotRecorded == \A i \in 1..Len(errors) : errors[i] # <<"getRepositoryCommits", repoIdx>>

(* the commits of the pages received before the request of page `page` *)
EarlierPages == SubSeq(RemoteCommitList(repos[repoIdx]), 1, (page - 1) * PerPage)

SkippedListing == variant = "all_user_commit" /\ pc = "repoDone" /\ listingFailed = "skipped"

(* C14, as stated: a commit listing that fails with 409 or 404 is not       *)
(* propagated and not recorded, and the repository contributes zero commits *)
C14_SkippedRepositoryContributesNothing ==
  SkippedListing => (runError = "none" /\ NotRecorded /\ repoCommits = <<>>)

(* C14, amended: a commit listing that fails with 409 or 404 is not         *)
(* propagated and not recorded; the repository contributes the commits of   *)
(* the pages received before the failed request (none when the first        *)
(* request fails), and the walk continues with the next repository          *)
C14_SkippedRepositoryKeepsEarlierPages ==
  [][/\ SkippedListing' =>
          (runError' = "none" /\ NotRecorded' /\ repoCommits' = EarlierPages')
     /\ (SkippedListing /\ pc' # pc) =>
          /\ pc' = "walkHead"
          /\ repoIdx' = repoIdx + 1
          /\ directCommits' = directCommits \o EarlierPages
          /\ errors' = errors /\ runError' = "none" /\ exitCode' = exitCode]_vars

C14_Witness ==
  /\ SkippedListing /\ page > 1
  /\ Len(repoCommits) = PerPage /\ repoCommits = EarlierPages
  /\ NotRecorded /\ runError = "none" /\ exitCode = "none"


(***************************************************************************)
(* The quota status when GET /rate_limit cannot be reached                 *)
(***************************************************************************)
(* C16: in every tool, when GET /rate_limit cannot be reached the quota     *)
(* status handed to the limiter is remaining = 1 and reset = now + 60 s,    *)
(* not an error                                                             *)
C16_UnreachableQuotaFallsBack ==
  (qtPc = "done" /\ ~qtReachable) =>
    /\ qtStatus.outcome = "status"
    /\ qtStatus.remaining = 1
    /\ qtStatus.reset = (qtNowMs \div 1000) + 60


(***************************************************************************)
(* Routing of the remote calls                                             *)
(***************************************************************************)
(* C17: every remote call of a run is executed inside the schedule() of the *)
(* limiter of its resource class: /search/* on the search limiter, every    *)
(* other endpoint on the core limiter, none outside a limiter               *)
C17_EveryCallThroughItsLimiter ==
  \A i \in 1..Len(usCalls) : usCalls[i].via = ResourceClass(usCalls[i].endpoint)


(***************************************************************************)
(* Errors that reach the catch of run()                                    *)
(***************************************************************************)
(* C18: when an error reaches the top level of a run (a search failure      *)
(* other than the ceiling, after the walk has collected commits), the       *)
(* commits collected before the failure are in a report when the process    *)
(* has exited                                                               *)
C18_FailedRunPersistsCollected ==
  (variant = "all_user_commit" /\ exitCode = "exit1" /\ runError = "search"
   /\ Len(directCommits) > 0) =>
    \E i \in 1..Len(reports) : reports[i].commits = directCommits

(***************************************************************************)
(* Validation before any data request                                      *)
(***************************************************************************)
DataKinds == {"repos", "commits", "detail", "search", "prCommits", "prDetail"}

DataRequested == \E r \in inflight : r[1] \in DataKinds

NothingFetched ==
  /\ totalFetched = 0 /\ repos = <<>> /\ directCommits = <<>> /\ pullRequests = <<>>
  /\ allPrCommits = <<>> /\ commits = <<>> /\ reports = <<>>

(* C19: no repository, commit or search request is issued unless the         *)
(* configuration was valid before any network call and GET /users/{username} *)
(* succeeded earlier in the run; a failed validation ends the run with       *)
(* nothing fetched                                                           *)
C19_ValidatedBeforeAnyFetch ==
  variant = "all_user_commit" =>
    /\ inflight # {} => config.valid
    /\ DataRequested => (config.valid /\ userValidated /\ remote.account = "found")
    /\ (~config.valid \/ remote.account # "found") => (NothingFetched /\ ~DataRequested)
    /\ runError \in {"config", "validateUser"} =>
         (exitCode = "exit1" /\ inflight = {} /\ NothingFetched)

C19_Witness ==
  /\ variant = "all_user_commit" /\ config.valid /\ userValidated
  /\ Req("search", "author") \in inflight /\ Len(directCommits) > 0

C19_WitnessRejected ==
  /\ variant = "all_user_commit" /\ runError = "validateUser" /\ exitCode = "exit1"
  /\ remote.repos > 0 /\ NothingFetched


(***************************************************************************)
(* The partitioners at the edges of the range                              *)
(***************************************************************************)
(* C21: for start == end the partitioner returns exactly one partition       *)
(* {start, end} covering that single day                                     *)
C21_SingleDayPartition ==
  (dpPc = "done" /\ dpStart = dpEnd) =>
    /\ dpParts = <<[start |-> dpStart, end |-> dpEnd]>>
    /\ dpRanges = <<[start |-> dpStart, end |-> dpEnd]>>

(* C22: for start > end the partitioner fails with an InvalidRange error     *)
(* instead of returning a list of partitions                                 *)
C22_InvertedRangeFails ==
  (dpPc = "done" /\ dpStart > dpEnd) => dpOutcome = "thrown"


(***************************************************************************)
(* The representative kept by the merge                                    *)
(***************************************************************************)
FirstOccurrence(list, id) == CHOOSE i \in 1..Len(list) :
  list[i].id = id /\ \A j \in 1..(i - 1) : list[j].id # id

KeepsFirstOccurrences(kept, list) ==
  \A k \in 1..Len(kept) : kept[k].occurrence = FirstOccurrence(list, kept[k].id)

(* C23: when a pull request occurs more than once in the author results      *)
(* followed by the user results, the entry kept by the merge is its first     *)
(* occurrence, in all_user_commit and in developer_insights                   *)
C23_FirstOccurrenceWins ==
  mgPc = "done" =>
    /\ KeepsFirstOccurrences(mgKept.unique, mgAuthor \o mgUser)
    /\ KeepsFirstOccurrences(mgKept.byId, mgAuthor \o mgUser)


(***************************************************************************)
(* The reported number of records                                          *)
(***************************************************************************)
(* C24: at the end of a run the reported totalRecordsFetched (this.totalFetched) *)
(* is the number of records returned by all listing and search requests of   *)
(* the run, capped at totalRecords when a limit is set; with and without a   *)
(* limit                                                                     *)
C24_ReportedCountIsCumulative ==
  (variant = "all_user_commit" /\ pc = "done") =>
    totalFetched = IF config.totalRecords > 0 THEN Min(returned, config.totalRecords)
                   ELSE returned


(***************************************************************************)
(* The status reported for a username                                      *)
(***************************************************************************)
(* C25: for each username processed the reported status is 'Active' exactly  *)
(* when GET /users/{username} succeeded, 'Suspended' exactly when it         *)
(* answered 404 and the search found the user, 'Not Found / Suspended'       *)
(* exactly when it answered 404 and the search completed without finding the *)
(* user, and 'Error' for every other HTTP error                              *)
C25_StatusFollowsTheAnswers ==
  \A i \in 1..Len(usResults) :
    LET answer == UsersToProcess[i] IN
    /\ usResults[i] = "Active" <=> answer = "active"
    /\ usResults[i] = "Suspended" <=> answer = "suspended"
    /\ usResults[i] = "Not Found / Suspended" <=> answer = "missing"
    /\ usResults[i] = "Error" <=> answer \in {"error", "searchFails"}


(***************************************************************************)
(* Pages requested with a shrinking per_page                               *)
(***************************************************************************)
IsPrefix(list, whole) ==
  Len(list) <= Len(whole) /\ \A i \in 1..Len(list) : list[i] = whole[i]

(* C26: with a budget b > 0 the records returned by a paginated listing form *)
(* a prefix of the remote collection, none repeated and none skipped, though *)
(* per_page shrinks with the remaining budget while page grows by one        *)
C26_ListingIsPrefixOfRemote ==
  (variant = "all_user_commit" /\ config.totalRecords > 0) =>
    /\ IsPrefix(repos, RemoteRepoList)
    /\ (repoIdx <= Len(repos) /\ IsPrefix(repos, RemoteRepoList)) =>
         IsPrefix(repoCommits, RemoteCommitList(repos[repoIdx]))


(***************************************************************************)
(* Search hits counted by fetchPullRequests                                *)
(***************************************************************************)
(* C27: in developer_insights with totalRecords > 0 every search hit counted  *)
(* into totalRecordsFetched yields its pull request in the list (no detail    *)
(* request fails here): once the items of a counted page have been gone       *)
(* through, each of them is in pullRequests                                   *)
C27_CountedHitsAreKept ==
  (variant = "developer_insights" /\ config.totalRecords > 0 /\ pc = "deItemHead"
   /\ prIdx > Len(formatted)) =>
    \A i \in 1..Len(formatted) : formatted[i].id \in Ids(pullRequests)


(***************************************************************************)
(* The pull request attributed to a commit of several pull requests        *)
(***************************************************************************)
WithoutSha(list, sha) == SelectSeq(list, LAMBDA c : c.sha # sha)

NumberOf(list, sha) == list[FindBySha(list, sha)].pullRequest

(* C28: a sha of the PR-commit list carries the same pullRequest number in   *)
(* the reconciled output whether or not the direct walk also found that sha: *)
(* the output for the direct commits and the output for the same direct      *)
(* commits without that sha name the same pull request                       *)
C28_SameNumberWithOrWithoutDirect ==
  rcPc = "done" =>
    \A sha \in Shas(rcPr) \cap Shas(rcDirect) :
      NumberOf(rcOut, sha) = NumberOf(Reconcile(WithoutSha(rcDirect, sha), rcPr), sha)


(***************************************************************************)
(* The report generation of run() and the one of the SIGINT handler        *)
(***************************************************************************)
RunInOrPastReport == pc \in {"reportWrite", "rateLimit", "rateLimitWait", "done"}

(* C29: within one run of all_user_commit the SIGINT handler never executes  *)
(* generateReport while run() executes it or after run() has executed it, and *)
(* the report file is written by at most one report generation               *)
C29_OneReportGeneration ==
  variant = "all_user_commit" =>
    /\ ~(sigPc = "mkdir" /\ RunInOrPastReport)
    /\ Len(reports) <= 1


(***************************************************************************)
(* Termination of the pagination loops                                     *)
(***************************************************************************)
InReposLoop == Alive /\ pc \in {"reposHead", "reposWait"}

InCommitsLoop == Alive /\ pc \in {"commitsHead", "commitsWait", "detailsWait"}

InSearchLoop(q) == Alive /\ pc = "prSearch" /\ tasks[q].pc \in {"queryHead", "queryWait"}

InInsightsLoop == Alive /\ pc \in {"dePageHead", "deSearchWait", "deItemHead", "deItemWait"}

(* C30: every pagination loop that is entered is left again: the loop over   *)
(* the repository pages, the loop over the commit pages of a repository, the *)
(* loops over the search-result pages of both tools; with a budget and       *)
(* without, and when a page request fails                                    *)
C30_PaginationLoopsTerminate ==
  /\ InReposLoop ~> ~InReposLoop
  /\ InCommitsLoop ~> ~InCommitsLoop
  /\ InSearchLoop("author") ~> ~InSearchLoop("author")
  /\ InSearchLoop("user") ~> ~InSearchLoop("user")
  /\ InInsightsLoop ~> ~InInsightsLoop


(* the loop over the repository pages has been left after its second page    *)
(* request failed, without a budget and with a full first page kept          *)
C30_Witness ==
  /\ variant = "all_user_commit"
  /\ config.totalRecords = 0
  /\ pc = "walkHead"
  /\ page = 2
  /\ Len(repos) = PerPage
  /\ errors = <<<<"getUserRepositories", 0>>>>

====
